---- MODULE Spec2Model ----
(***************************************************************************)
(* A model of skip/eeschema/schematic/symbol.py of kicad-skip: the symbol  *)
(* collection of a schematic (SymbolCollection, Symbol.from_lib, the       *)
(* Reference/Value setters), the pin collection of a symbol (Symbol.pin,   *)
(* Symbol.get_pin_locations) and the pin placement transform               *)
(* (SymbolPin.location).                                                   *)
(*                                                                         *)
(* NamedElementCollection (skip/collection.py), the property wrapper       *)
(* (skip/property.py) and AtValue (skip/at_location.py) are not part of    *)
(* the sources at hand; their operations are modelled from the design      *)
(* document and are marked so where they are defined.                      *)
(***************************************************************************)
EXTENDS Integers, Sequences, FiniteSets, TLC

VARIABLES
    pc,               \* "new": the batch is parsed, no collection yet; "ready"; "failed": the constructor raised
    ref,              \* symbol id -> property.Reference.value
    unit,             \* symbol id -> unit.value
    lib_id,           \* symbol id -> lib_id.value, as the sequence of its ':'-separated parts
    value,            \* symbol id -> property.Value.value
    at,               \* symbol id -> at.value, <<x, y, rotation>>
    mirror,           \* symbol id -> mirror.value, "none" when the symbol has no mirror
    pin,              \* symbol id -> wrapped_parsed_value.pin, the instance pins' numbers
    sympins_cont_cache, \* symbol id -> _sympins_cont_cache, NoCache or the SymbolPins in order
    symbol,           \* schematic.symbol: [elements, named, multi_unit_elements]
    last,             \* the last operation: its name and err, "none" or the error it raised
    locations,        \* what get_pin_locations returned last
    lib_pin_at,       \* SymbolPin.location: _lib_sym_pin.at.value of the pin asked
    l_pc,             \* SymbolPin.location: "idle", "call", "loop", "done"
    rel_at,           \* SymbolPin.location: rel_at
    manip_at,         \* SymbolPin.location: manip_at
    steps,            \* SymbolPin.location: turns of the while loop taken
    loc,              \* SymbolPin.location: the AtValue returned
    wire,             \* schematic.wire: the wires in order, each <<start, end>> of coordinates
    attached          \* what the last attached_symbols query returned

symVars == <<ref, unit, lib_id, value, at, mirror, pin, sympins_cont_cache>>
collVars == <<pc, symVars, symbol, last>>
locVars == <<lib_pin_at, l_pc, rel_at, manip_at, steps, loc>>
wireVars == <<wire, attached>>
vars == <<collVars, locations, locVars, wireVars>>

None == "None"
\* _sympins_cont_cache: None, or the pin collection built
NoCache == [built |-> FALSE, pins |-> <<>>]
Cached(sym_pins) == [built |-> TRUE, pins |-> sym_pins]

(***************************************************************************)
(* Bounds of the collection model.                                         *)
(***************************************************************************)
MaxBatch == 2       \* symbols handed to the constructor
MaxSymbols == 2     \* symbols ever created (batch and from_lib)
MaxUnit == 2        \* units 1..MaxUnit

References == {"C1", "C2", "U1"}
Units == 1..MaxUnit
Values == {"10uF"}
BatchValue == "10uF"
BatchLibId == <<"Device", "C_Small">>
\* the document's library table: each entry holds its units' pin definitions,
\* [number, name, at]
CSmall == <<"Device", "C_Small">>
Regulator == <<"Regulator_Linear", "AP2112K-3.3">>
OpAmp == <<"Amplifier_Operational", "LM358">>
PinDef(number, name, pin_at) == [number |-> number, name |-> name, at |-> pin_at]
LibSymbolTable ==
    [id \in {CSmall, Regulator, OpAmp} |->
        IF id = CSmall
        THEN [symbol |-> << <<PinDef("1", "~", <<0, 3, 270>>),
                              PinDef("2", "~", <<0, -3, 90>>)>> >>]
        ELSE IF id = Regulator
        THEN [symbol |-> << <<PinDef("1", "VIN", <<-8, 3, 0>>),
                              PinDef("2", "GND", <<0, -8, 90>>),
                              PinDef("3", "~", <<8, 3, 180>>),
                              PinDef("4", "", <<8, 0, 180>>)>> >>]
        ELSE [symbol |-> << <<PinDef("1", "OUT", <<5, 0, 180>>),
                              PinDef("2", "IN", <<-5, 2, 0>>)>>,
                            <<PinDef("3", "IN", <<-5, -2, 0>>),
                              PinDef("2", "VCC", <<0, 5, 270>>),
                              PinDef("4", "1", <<0, -5, 90>>)>> >>]]
lib_symbols == DOMAIN LibSymbolTable
\* hasattr(schematic, 'lib_symbols'): the document carries its library table
has_lib_symbols == TRUE
\* the ids from_lib is called with
LibIds == {CSmall, <<"GND">>}
AtInputs == {<<100, 50>>}

Range(s) == {s[i] : i \in DOMAIN s}
Last(s) == s[Len(s)]
MapPut(f, k, v) == [x \in DOMAIN f \cup {k} |-> IF x = k THEN v ELSE f[x]]
MapRemove(f, k) == [x \in DOMAIN f \ {k} |-> f[x]]
EmptyMap == [x \in {} |-> 0]

(***************************************************************************)
(* SymbolCollection.UnitToName and the key function handed to the base     *)
(* class.  Python indexes from 0, TLA+ from 1.                             *)
(***************************************************************************)
UnitToName == <<"N/A", "A", "B", "C", "D", "E", "F", "G", "H", "I", "J", "K">>

SymbolKey(r, u) == IF u = 1 THEN r ELSE r \o "_" \o UnitToName[u + 1]

(***************************************************************************)
(* NamedElementCollection, from the design document (4.1): an ordered      *)
(* sequence and a name index.  A collection value is                       *)
(* [elements, named]; every operation returns the collection it leaves     *)
(* behind and err, "none" or the error it raises.                          *)
(***************************************************************************)
\* append: extends the sequence and the index; a key already present is an error
NamedAppend(c, e, k) ==
    IF k \in DOMAIN c.named
    THEN [err |-> "KeyCollision", elements |-> c.elements, named |-> c.named]
    ELSE [err |-> "none", elements |-> Append(c.elements, e),
          named |-> MapPut(c.named, k, e)]

\* the constructor: registers the elements in order under keys[i]
RECURSIVE NamedInit(_, _)
NamedInit(els, keys) ==
    IF els = <<>>
    THEN [err |-> "none", elements |-> <<>>, named |-> EmptyMap]
    ELSE LET n == Len(els)
             c == NamedInit(SubSeq(els, 1, n - 1), SubSeq(keys, 1, n - 1))
         IN  IF c.err # "none" THEN c ELSE NamedAppend(c, els[n], keys[n])

\* elementRename(old, new): moves the index entry, keeps the order; fails when
\* old is absent or new is already present
elementRename(c, old, new) ==
    IF old \notin DOMAIN c.named
    THEN [err |-> "KeyMissing", elements |-> c.elements, named |-> c.named]
    ELSE IF new \in DOMAIN c.named
    THEN [err |-> "KeyCollision", elements |-> c.elements, named |-> c.named]
    ELSE [err |-> "none", elements |-> c.elements,
          named |-> MapPut(MapRemove(c.named, old), new, c.named[old])]

(***************************************************************************)
(* SymbolCollection.__init__                                               *)
(***************************************************************************)
\* the keys of _multi_unit_elements, in insertion order (a dict keeps the
\* place of a key's first insertion)
RECURSIVE MultiUnitKeys(_, _, _)
MultiUnitKeys(els, refs, units) ==
    IF els = <<>> THEN <<>>
    ELSE LET n == Len(els)
             before == MultiUnitKeys(SubSeq(els, 1, n - 1), refs, units)
         IN  IF units[els[n]] > 1 /\ refs[els[n]] \notin Range(before)
             THEN Append(before, refs[els[n]])
             ELSE before

\* for multis in self._multi_unit_elements.keys(): self.elementRename(multis, multis_A)
RECURSIVE RenameMultis(_, _)
RenameMultis(c, multis) ==
    IF multis = <<>> \/ c.err # "none" THEN c
    ELSE RenameMultis(elementRename(c, multis[1], multis[1] \o "_" \o UnitToName[2]),
                      Tail(multis))

SymbolCollectionInit(els, refs, units) ==
    LET base == NamedInit(els, [i \in DOMAIN els |-> SymbolKey(refs[els[i]], units[els[i]])])
        multis == MultiUnitKeys(els, refs, units)
        done == RenameMultis(base, multis)
    IN  [err |-> done.err, elements |-> done.elements, named |-> done.named,
         multi_unit_elements |-> Range(multis)]

multiple_units_for_reference(c, reference) == reference \in c.multi_unit_elements

(***************************************************************************)
(* SymbolCollection.property_changed                                       *)
(***************************************************************************)
property_changed_Swapped(c, name, to_value, from_value) ==
    IF name # "Reference"
    THEN [err |-> "none", elements |-> c.elements, named |-> c.named]
    ELSE elementRename(c, to_value, from_value)

property_changed(c, name, to_value, from_value) ==
    IF name # "Reference"
    THEN [err |-> "none", elements |-> c.elements, named |-> c.named]
    ELSE elementRename(c, from_value, to_value)

WithIndex(c, r) ==
    [elements |-> r.elements, named |-> r.named,
     multi_unit_elements |-> c.multi_unit_elements]

(***************************************************************************)
(* The initial states: a parsed batch of symbols whose keys are distinct   *)
(* (the data model's invariant on a document), not yet collected.          *)
(***************************************************************************)
Kinds == References \X Units
Batches == UNION {[1..n -> Kinds] : n \in 0..MaxBatch}
DistinctKeys(b) ==
    \A i, j \in DOMAIN b :
        i # j => SymbolKey(b[i][1], b[i][2]) # SymbolKey(b[j][1], b[j][2])

NoOp == [name |-> "none", err |-> "none"]

\* a document without wires, no connectivity query made
NoWires ==
    /\ wire = <<>>
    /\ attached = <<>>

\* no pin location is being computed
LocIdle ==
    /\ l_pc = "idle"
    /\ lib_pin_at = <<0, 0, 0>>
    /\ rel_at = <<0, 0, 0>>
    /\ manip_at = <<0, 0, 0>>
    /\ steps = 0
    /\ loc = None

Init ==
    /\ pc = "new"
    /\ \E b \in Batches :
        /\ DistinctKeys(b)
        /\ ref = [i \in DOMAIN b |-> b[i][1]]
        /\ unit = [i \in DOMAIN b |-> b[i][2]]
        /\ lib_id = [i \in DOMAIN b |-> BatchLibId]
        /\ value = [i \in DOMAIN b |-> BatchValue]
        /\ at = [i \in DOMAIN b |-> <<0, 0, 0>>]
        /\ mirror = [i \in DOMAIN b |-> "none"]
        /\ pin = [i \in DOMAIN b |-> <<>>]
        /\ sympins_cont_cache = [i \in DOMAIN b |-> NoCache]
    /\ symbol = [elements |-> <<>>, named |-> EmptyMap, multi_unit_elements |-> {}]
    /\ last = NoOp
    /\ locations = EmptyMap
    /\ LocIdle
    /\ NoWires

\* SymbolCollection(parent, elements)
Construct ==
    /\ pc = "new"
    /\ LET r == SymbolCollectionInit([i \in DOMAIN ref |-> i], ref, unit)
       IN  /\ pc' = IF r.err = "none" THEN "ready" ELSE "failed"
           /\ symbol' = IF r.err = "none"
                        THEN [elements |-> r.elements, named |-> r.named,
                              multi_unit_elements |-> r.multi_unit_elements]
                        ELSE symbol
           /\ last' = [name |-> "Construct", err |-> r.err]
    /\ UNCHANGED <<symVars, locations, locVars, wireVars>>

\* sym.Reference = v (Symbol.Reference setter): the property wrapper writes the
\* value through and emits (name, new, old) to the owning collection
SetReference(e, v) ==
    /\ pc = "ready"
    /\ e \in Range(symbol.elements)
    /\ v # ref[e]
    /\ LET r == property_changed(symbol, "Reference", v, ref[e])
       IN  /\ symbol' = WithIndex(symbol, r)
           /\ last' = [name |-> "SetReference", err |-> r.err]
    /\ ref' = [ref EXCEPT ![e] = v]
    /\ UNCHANGED <<pc, unit, lib_id, value, at, mirror, pin,
                   sympins_cont_cache, locations, locVars, wireVars>>

\* sym.Value = v (Symbol.Value setter)
SetValue(e, v) ==
    /\ pc = "ready"
    /\ e \in Range(symbol.elements)
    /\ LET r == property_changed(symbol, "Value", v, value[e])
       IN  /\ symbol' = WithIndex(symbol, r)
           /\ last' = [name |-> "SetValue", err |-> r.err]
    /\ value' = [value EXCEPT ![e] = v]
    /\ UNCHANGED <<pc, ref, unit, lib_id, at, mirror, pin,
                   sympins_cont_cache, locations, locVars, wireVars>>

(***************************************************************************)
(* Symbol.from_lib                                                         *)
(***************************************************************************)
\* if hasattr(schematic, 'lib_symbols') and lib_id not in schematic.lib_symbols
LibIdRejected_Never(has, id) == FALSE

LibIdRejected(has, id) == has /\ id \notin lib_symbols

\* schematic.symbol.append(wrapped_symbol)
Register_Front(c, e, k) ==
    IF k \in DOMAIN c.named
    THEN NamedAppend(c, e, k)
    ELSE [err |-> "none", elements |-> <<e>> \o c.elements,
          named |-> MapPut(c.named, k, e)]

\* a registration that re-runs the suffixing of the constructor: the plain key
\* of which k is a unit key moves to its _A form
Register_Resuffix(c, e, k) ==
    LET a == NamedAppend(c, e, k)
        bases == {r \in DOMAIN a.named :
                    \E i \in 2..(Len(UnitToName) - 1) : k = r \o "_" \o UnitToName[i + 1]}
    IN  IF a.err # "none" \/ bases = {} THEN a
        ELSE LET r == CHOOSE b \in bases : TRUE
             IN  elementRename(a, r, r \o "_" \o UnitToName[2])

Register(c, e, k) == NamedAppend(c, e, k)

from_lib(id, reference, at_x, at_y, u) ==
    /\ pc = "ready"
    /\ IF LibIdRejected(has_lib_symbols, id)
       THEN /\ last' = [name |-> "from_lib", err |-> "ValueError", lib_id |-> id,
                        known |-> lib_symbols]
            /\ UNCHANGED <<symVars, symbol>>
       ELSE /\ Len(ref) < MaxSymbols
            /\ LET e == Len(ref) + 1
                   r == Register(symbol, e, SymbolKey(reference, u))
               IN  /\ ref' = Append(ref, reference)
                   /\ unit' = Append(unit, u)
                   /\ lib_id' = Append(lib_id, id)
                   /\ value' = Append(value, Last(id))
                   /\ at' = Append(at, <<at_x, at_y, 0>>)
                   /\ mirror' = Append(mirror, "none")
                   /\ pin' = Append(pin, <<>>)
                   /\ sympins_cont_cache' = Append(sympins_cont_cache, NoCache)
                   /\ symbol' = WithIndex(symbol, r)
                   /\ last' = [name |-> "from_lib", err |-> r.err, lib_id |-> id]
    /\ UNCHANGED <<pc, locations, locVars, wireVars>>

Next ==
    \/ Construct
    \/ \E e \in 1..MaxSymbols, v \in References : SetReference(e, v)
    \/ \E e \in 1..MaxSymbols, v \in Values : SetValue(e, v)
    \/ \E id \in LibIds, r \in References, p \in AtInputs, u \in Units :
            from_lib(id, r, p[1], p[2], u)

Spec == Init /\ [][Next]_vars

(***************************************************************************)
(* The collection under successful operations only: construction, then     *)
(* appends and Reference edits that return without raising.                *)
(***************************************************************************)
AppendOk(id, reference, at_x, at_y, u) ==
    /\ from_lib(id, reference, at_x, at_y, u)
    /\ last'.err = "none"

EditOk(e, v) ==
    /\ SetReference(e, v)
    /\ last'.err = "none"

NextOk ==
    \/ Construct
    \/ \E id \in LibIds, r \in References, p \in AtInputs, u \in Units :
            AppendOk(id, r, p[1], p[2], u)
    \/ \E e \in 1..MaxSymbols, v \in References : EditOk(e, v)

SpecOk == Init /\ [][NextOk]_vars

(***************************************************************************)
(* SymbolPin.location: the placement transform.                            *)
(***************************************************************************)
MaxCoord == 1       \* symbol positions are in -MaxCoord..MaxCoord
MaxRel == 2         \* library pin positions are in -MaxRel..MaxRel
MaxSteps == 5       \* turns of the while loop the model follows

Rotations == {0, 90, 180, 270}
Mirrors == {"none", "x", "y"}

\* AtValue, from the design document (4.3): <<x, y, rotation>>, and its quarter turn
AtValue(coords) == <<coords[1], coords[2], coords[3]>>
rotate90degrees(a) == <<-a[2], a[1], (a[3] + 90) % 360>>

\* round(v, 4): an integer is returned as it is
Round4(v) == v

\* the mirror branch; mval is "none" when the symbol has no mirror attribute
Mirrored_NoTurn(mval, raw) ==
    IF mval = "y" THEN <<-1 * raw[1], raw[2], raw[3]>>
    ELSE IF mval = "x" THEN <<raw[1], -1 * raw[2], raw[3]>>
    ELSE raw

Mirrored(mval, raw) ==
    IF mval = "y"
    THEN <<-1 * raw[1], raw[2],
           IF raw[3] % 180 = 0 THEN (raw[3] + 180) % 360 ELSE raw[3]>>
    ELSE IF mval = "x"
    THEN <<raw[1], -1 * raw[2],
           IF raw[3] % 90 = 0 THEN (raw[3] + 180) % 360 ELSE raw[3]>>
    ELSE raw

\* manip_at = AtValue(rel_at_raw); manip_at.rotation = 0
ManipStart(raw) == <<raw[1], raw[2], 0>>

\* while manip_at.rotation != par_at.rotation
LoopCond(manip, par) == manip[3] # par[3]

\* manip_at.rotate90degrees(); rel_at.rotate90degrees()
LoopBody_ManipTwice(manip, rel) ==
    [manip |-> rotate90degrees(rotate90degrees(manip)), rel |-> rel]

LoopBody(manip, rel) ==
    [manip |-> rotate90degrees(manip), rel |-> rotate90degrees(rel)]

\* the AtValue returned
Returned_NoFlip(par, rel) ==
    <<Round4(par[1] + rel[1]), Round4(par[2] + rel[2]), rel[3]>>

Returned(par, rel) ==
    <<Round4(par[1] + rel[1]), Round4(par[2] - rel[2]), rel[3]>>

\* the loop run to its end, for the callers of location
RECURSIVE RunLoop(_, _, _, _)
RunLoop(manip, rel, par, fuel) ==
    IF LoopCond(manip, par) /\ fuel > 0
    THEN LET b == LoopBody(manip, rel) IN RunLoop(b.manip, b.rel, par, fuel - 1)
    ELSE rel

location(par, mval, lib_at) ==
    LET raw == Mirrored(mval, lib_at)
    IN  Returned(AtValue(par), RunLoop(ManipStart(raw), AtValue(raw), AtValue(par), MaxSteps))

\* a placed symbol and one of its library pins; the caller is about to read
\* the pin's location
Coords == (-MaxCoord)..MaxCoord
RelCoords == (-MaxRel)..MaxRel

LocInit ==
    /\ pc = "ready"
    /\ ref = <<"U1">>
    /\ unit = <<1>>
    /\ lib_id = <<BatchLibId>>
    /\ value = <<BatchValue>>
    /\ \E x, y \in Coords, r \in Rotations : at = <<<<x, y, r>>>>
    /\ \E m \in Mirrors : mirror = <<m>>
    /\ pin = <<<<"1">>>>
    /\ sympins_cont_cache = <<NoCache>>
    /\ symbol = [elements |-> <<1>>, named |-> [k \in {"U1"} |-> 1],
                 multi_unit_elements |-> {}]
    /\ last = NoOp
    /\ locations = EmptyMap
    /\ \E x, y \in RelCoords, r \in Rotations : lib_pin_at = <<x, y, r>>
    /\ l_pc = "call"
    /\ rel_at = <<0, 0, 0>>
    /\ manip_at = <<0, 0, 0>>
    /\ steps = 0
    /\ loc = None
    /\ NoWires

\* lines 525-545: up to the loop
LocStart ==
    /\ l_pc = "call"
    /\ LET raw == Mirrored(mirror[1], lib_pin_at)
       IN  /\ rel_at' = AtValue(raw)
           /\ manip_at' = ManipStart(raw)
    /\ l_pc' = "loop"
    /\ UNCHANGED <<lib_pin_at, steps, loc, collVars, locations, wireVars>>

\* one turn of the loop
LocRotate ==
    /\ l_pc = "loop"
    /\ LoopCond(manip_at, AtValue(at[1]))
    /\ steps < MaxSteps
    /\ LET b == LoopBody(manip_at, rel_at)
       IN  /\ manip_at' = b.manip
           /\ rel_at' = b.rel
    /\ steps' = steps + 1
    /\ UNCHANGED <<lib_pin_at, l_pc, loc, collVars, locations, wireVars>>

\* the loop is left and the location returned
LocReturn ==
    /\ l_pc = "loop"
    /\ ~LoopCond(manip_at, AtValue(at[1]))
    /\ loc' = Returned(AtValue(at[1]), rel_at)
    /\ l_pc' = "done"
    /\ UNCHANGED <<lib_pin_at, rel_at, manip_at, steps, collVars, locations, wireVars>>

LocNext == LocStart \/ LocRotate \/ LocReturn

SpecLoc == LocInit /\ [][LocNext]_vars

(***************************************************************************)
(* Symbol.pin and Symbol.get_pin_locations.  The name index of the         *)
(* SymbolPinCollection is not followed: the operations below read the      *)
(* collection as a sequence only.                                          *)
(***************************************************************************)
MaxPins == 4        \* instance pins of a symbol

PinNumbers == {"1", "2", "3", "4", "9"}
PinLibIds == lib_symbols \cup {<<"GND">>}
Placements == {[at |-> <<0, 0, 0>>, mirror |-> "none"],
               [at |-> <<1, -1, 90>>, mirror |-> "x"]}

\* Symbol.lib_symbol: the library entry, or None (found is FALSE)
NoLibSymbol == [found |-> FALSE, symbol |-> <<>>]
lib_symbol(has, id) ==
    IF Len(id) > 0 /\ has /\ id \in DOMAIN LibSymbolTable
    THEN [found |-> TRUE, symbol |-> LibSymbolTable[id].symbol]
    ELSE NoLibSymbol

\* the library symbol's own pin attribute, from the design document (4.4):
\* the full set, every unit's definitions
RECURSIVE Flatten(_)
Flatten(ss) == IF ss = <<>> THEN <<>> ELSE Flatten(SubSeq(ss, 1, Len(ss) - 1)) \o Last(ss)
LibPin(lib) == Flatten(lib.symbol)

\* lines 311-314: lib_sym_pins, or the error the lookup raises
LibSymPins_AlwaysFull(c, reference, u, lib) ==
    IF ~lib.found THEN [err |-> "AttributeError", pins |-> <<>>]
    ELSE [err |-> "none", pins |-> LibPin(lib)]

LibSymPins(c, reference, u, lib) ==
    IF ~lib.found THEN [err |-> "AttributeError", pins |-> <<>>]
    ELSE IF multiple_units_for_reference(c, reference)
    THEN IF u \in DOMAIN lib.symbol
         THEN [err |-> "none", pins |-> lib.symbol[u]]
         ELSE [err |-> "IndexError", pins |-> <<>>]
    ELSE [err |-> "none", pins |-> LibPin(lib)]

\* lines 316-317: lib_pins_map; a later definition of a number replaces an earlier
RECURSIVE LibPinsMap(_)
LibPinsMap(lib_sym_pins) ==
    IF lib_sym_pins = <<>> THEN EmptyMap
    ELSE LET n == Len(lib_sym_pins)
         IN  MapPut(LibPinsMap(SubSeq(lib_sym_pins, 1, n - 1)),
                    lib_sym_pins[n].number, lib_sym_pins[n])

\* SymbolPin(sympin, lib_pin): the instance pin (its place in the symbol's pin
\* list) with the library definition's number, name and at
SymbolPin(sym_pin, lib_pin) ==
    [pin |-> sym_pin, number |-> lib_pin.number, name |-> lib_pin.name,
     at |-> lib_pin.at]

\* lines 319-326: pseudoPinsList
RECURSIVE PseudoPinsList(_, _)
PseudoPinsList(sym_pins, lib_pins_map) ==
    IF sym_pins = <<>> THEN <<>>
    ELSE LET n == Len(sym_pins)
             before == PseudoPinsList(SubSeq(sym_pins, 1, n - 1), lib_pins_map)
         IN  IF sym_pins[n] \in DOMAIN lib_pins_map
             THEN Append(before, SymbolPin(n, lib_pins_map[sym_pins[n]]))
             ELSE before

\* Symbol.pin: the cached collection, or the one built now
PinProperty_Truthy(cache, c, reference, u, lib, sym_pins) ==
    IF cache.built /\ cache.pins # <<>> THEN [err |-> "none", cache |-> cache]
    ELSE LET l == LibSymPins(c, reference, u, lib)
         IN  IF l.err # "none" THEN [err |-> l.err, cache |-> cache]
             ELSE [err |-> "none",
                   cache |-> Cached(PseudoPinsList(sym_pins, LibPinsMap(l.pins)))]

PinProperty(cache, c, reference, u, lib, sym_pins) ==
    IF cache.built THEN [err |-> "none", cache |-> cache]
    ELSE LET l == LibSymPins(c, reference, u, lib)
         IN  IF l.err # "none" THEN [err |-> l.err, cache |-> cache]
             ELSE [err |-> "none",
                   cache |-> Cached(PseudoPinsList(sym_pins, LibPinsMap(l.pins)))]

\* lines 351-360: locations
RECURSIVE PinLocations_AnyName(_, _, _)
PinLocations_AnyName(sym_pins, par, mval) ==
    IF sym_pins = <<>> THEN EmptyMap
    ELSE LET n == Len(sym_pins)
             before == PinLocations_AnyName(SubSeq(sym_pins, 1, n - 1), par, mval)
             l == location(par, mval, sym_pins[n].at)
             coord == <<l[1], l[2]>>
         IN  MapPut(MapPut(before, sym_pins[n].number, coord), sym_pins[n].name, coord)

RECURSIVE PinLocations(_, _, _)
PinLocations(sym_pins, par, mval) ==
    IF sym_pins = <<>> THEN EmptyMap
    ELSE LET n == Len(sym_pins)
             before == PinLocations(SubSeq(sym_pins, 1, n - 1), par, mval)
             l == location(par, mval, sym_pins[n].at)
             coord == <<l[1], l[2]>>
             byNumber == MapPut(before, sym_pins[n].number, coord)
         IN  IF sym_pins[n].name # "" /\ sym_pins[n].name # "~"
             THEN MapPut(byNumber, sym_pins[n].name, coord)
             ELSE byNumber

\* a placed symbol of the collection with its instance pins, no pin read yet
\* (the pins of one symbol carry different numbers)
PinLists ==
    {ps \in UNION {[1..n -> PinNumbers] : n \in 0..MaxPins} :
        \A i, j \in DOMAIN ps : ps[i] = ps[j] => i = j}

PinInit ==
    /\ pc = "ready"
    /\ ref = <<"U1">>
    /\ \E u \in Units, multi \in SUBSET {"U1"} :
        /\ unit = <<u>>
        /\ symbol = [elements |-> <<1>>,
                     named |-> [k \in {IF multi # {}
                                       THEN "U1_" \o UnitToName[u + 1]
                                       ELSE SymbolKey("U1", u)} |-> 1],
                     multi_unit_elements |-> multi]
    /\ \E id \in PinLibIds : lib_id = <<id>>
    /\ value = <<BatchValue>>
    /\ \E p \in Placements : at = <<p.at>> /\ mirror = <<p.mirror>>
    /\ \E ps \in PinLists : pin = <<ps>>
    /\ sympins_cont_cache = <<NoCache>>
    /\ last = NoOp
    /\ locations = EmptyMap
    /\ LocIdle
    /\ NoWires

\* sym.pin
AccessPin(e) ==
    /\ pc = "ready"
    /\ e \in DOMAIN ref
    /\ LET r == PinProperty(sympins_cont_cache[e], symbol, ref[e], unit[e],
                            lib_symbol(has_lib_symbols, lib_id[e]), pin[e])
       IN  /\ sympins_cont_cache' = [sympins_cont_cache EXCEPT ![e] = r.cache]
           /\ last' = [name |-> "pin", err |-> r.err]
    /\ UNCHANGED <<pc, ref, unit, lib_id, value, at, mirror, pin,
                   symbol, locations, locVars, wireVars>>

\* sym.get_pin_locations()
GetPinLocations(e) ==
    /\ pc = "ready"
    /\ e \in DOMAIN ref
    /\ LET r == PinProperty(sympins_cont_cache[e], symbol, ref[e], unit[e],
                            lib_symbol(has_lib_symbols, lib_id[e]), pin[e])
       IN  /\ sympins_cont_cache' = [sympins_cont_cache EXCEPT ![e] = r.cache]
           /\ last' = [name |-> "get_pin_locations", err |-> r.err]
           /\ locations' = IF r.err = "none"
                           THEN PinLocations(r.cache.pins, at[e], mirror[e])
                           ELSE locations
    /\ UNCHANGED <<pc, ref, unit, lib_id, value, at, mirror, pin,
                   symbol, locVars, wireVars>>

PinNext ==
    \/ \E e \in 1..MaxSymbols : AccessPin(e)
    \/ \E e \in 1..MaxSymbols : GetPinLocations(e)

SpecPin == PinInit /\ [][PinNext]_vars

(***************************************************************************)
(* The pin collection of a symbol that is edited after it was placed: the  *)
(* design document (5) names later changes of the unit, the library id and *)
(* the instance pin list next to the Reference edit.  They are plain       *)
(* writes to the symbol's parsed values.                                   *)
(***************************************************************************)
\* the instance pin lists of the edited symbol: the first pins of one list
EditPinOrder == <<"1", "2", "3", "9", "4", "5">>
EditPinLists == {ps \in PinLists : \A i \in DOMAIN ps : ps[i] = EditPinOrder[i]}
EditLibIds == {Regulator, OpAmp}
EditReferences == {"U1", "C1"}

CacheInit ==
    /\ pc = "ready"
    /\ ref = <<"U1">>
    /\ \E u \in Units, multi \in SUBSET {"U1"} :
        /\ unit = <<u>>
        /\ symbol = [elements |-> <<1>>,
                     named |-> [k \in {IF multi # {}
                                       THEN "U1_" \o UnitToName[u + 1]
                                       ELSE SymbolKey("U1", u)} |-> 1],
                     multi_unit_elements |-> multi]
    /\ \E id \in EditLibIds : lib_id = <<id>>
    /\ value = <<BatchValue>>
    /\ at = <<<<0, 0, 0>>>> /\ mirror = <<"none">>
    /\ \E ps \in EditPinLists : pin = <<ps>>
    /\ sympins_cont_cache = <<NoCache>>
    /\ last = NoOp
    /\ locations = EmptyMap
    /\ LocIdle
    /\ NoWires

\* sym.unit.value = u
SetUnit(e, u) ==
    /\ pc = "ready"
    /\ e \in DOMAIN ref
    /\ unit' = [unit EXCEPT ![e] = u]
    /\ last' = [name |-> "SetUnit", err |-> "none"]
    /\ UNCHANGED <<pc, ref, lib_id, value, at, mirror, pin, sympins_cont_cache,
                   symbol, locations, locVars, wireVars>>

\* sym.lib_id.value = id
SetLibId(e, id) ==
    /\ pc = "ready"
    /\ e \in DOMAIN ref
    /\ lib_id' = [lib_id EXCEPT ![e] = id]
    /\ last' = [name |-> "SetLibId", err |-> "none"]
    /\ UNCHANGED <<pc, ref, unit, value, at, mirror, pin, sympins_cont_cache,
                   symbol, locations, locVars, wireVars>>

\* the instance pin list of the symbol becomes ps
SetPins(e, ps) ==
    /\ pc = "ready"
    /\ e \in DOMAIN ref
    /\ pin' = [pin EXCEPT ![e] = ps]
    /\ last' = [name |-> "SetPins", err |-> "none"]
    /\ UNCHANGED <<pc, ref, unit, lib_id, value, at, mirror, sympins_cont_cache,
                   symbol, locations, locVars, wireVars>>

CacheNext ==
    \/ \E e \in 1..MaxSymbols : AccessPin(e)
    \/ \E e \in 1..MaxSymbols, u \in Units : SetUnit(e, u)
    \/ \E e \in 1..MaxSymbols, id \in EditLibIds : SetLibId(e, id)
    \/ \E e \in 1..MaxSymbols, ps \in EditPinLists : SetPins(e, ps)
    \/ \E e \in 1..MaxSymbols, v \in EditReferences : SetReference(e, v)

SpecCache == CacheInit /\ [][CacheNext]_vars

(***************************************************************************)
(* Connectivity: the attached_symbols queries of a pin and of a symbol.    *)
(* The wire collection (skip/eeschema/wire.py) is not part of the sources  *)
(* at hand; all_at and list_connected_symbols are modelled from the design *)
(* document (4.5, 6).                                                      *)
(***************************************************************************)
MaxWires == 2       \* wires of the document

\* the coordinates wires end at: the pin positions of the placements below
WirePoints == {<<0, -3>>, <<0, 3>>, <<6, -3>>, <<6, 3>>}
Wires == {w \in WirePoints \X WirePoints : w[1] # w[2]}
WireLists == UNION {[1..n -> Wires] : n \in 0..MaxWires}
\* where the second capacitor is placed; the first is at <<0, 0, 0>>
WirePlacements == {<<6, 0, 0>>, <<6, 0, 180>>, <<0, 6, 0>>}

\* hasattr(self.parent.parent, 'wire')
has_wire == TRUE

\* wire.all_at(x, y): the wires with an endpoint at exactly that coordinate
all_at(ws, x, y) ==
    LET Ends(w) == w[1] = <<x, y>> \/ w[2] = <<x, y>>
    IN  SelectSeq(ws, Ends)

\* the run of w: the wires reached from it through shared endpoints
RECURSIVE Run(_, _)
Run(ws, S) ==
    LET T == S \cup {v \in Range(ws) : \E u \in S : {u[1], u[2]} \cap {v[1], v[2]} # {}}
    IN  IF T = S THEN S ELSE Run(ws, T)

\* the coordinates of the pins of symbol o
PinCoordinates(o) ==
    LET r == PinProperty(sympins_cont_cache[o], symbol, ref[o], unit[o],
                         lib_symbol(has_lib_symbols, lib_id[o]), pin[o])
    IN  IF r.err # "none" THEN {}
        ELSE {<<location(at[o], mirror[o], r.cache.pins[i].at)[1],
                location(at[o], mirror[o], r.cache.pins[i].at)[2]>> :
                    i \in DOMAIN r.cache.pins}

\* w.list_connected_symbols(recursive_crawl): the symbols with a pin coordinate
\* on the run of w (on w alone without the crawl), each once, in the order of
\* the symbol collection
list_connected_symbols(w, recursive_crawl) ==
    LET run == IF recursive_crawl THEN Run(wire, {w}) ELSE {w}
        points == UNION {{v[1], v[2]} : v \in run}
        OnRun(o) == PinCoordinates(o) \cap points # {}
    IN  SelectSeq(symbol.elements, OnRun)

\* SymbolPin.attached_wires
PinAttachedWires(par, mval, sym_pin) ==
    LET l == location(par, mval, sym_pin.at)
    IN  IF ~has_wire THEN <<>> ELSE all_at(wire, l[1], l[2])

\* SymbolPin.attached_symbols: all_syms.extend(...) for each attached wire
RECURSIVE ExtendEach(_, _)
ExtendEach(all_syms, ws) ==
    IF ws = <<>> THEN all_syms
    ELSE ExtendEach(all_syms \o list_connected_symbols(ws[1], TRUE), Tail(ws))

\* Symbol.attached_wires: the pins' attached wires, one pin after the other
RECURSIVE SymbolAttachedWires(_, _, _)
SymbolAttachedWires(par, mval, sym_pins) ==
    IF sym_pins = <<>> THEN <<>>
    ELSE PinAttachedWires(par, mval, sym_pins[1])
            \o SymbolAttachedWires(par, mval, Tail(sym_pins))

\* Symbol.attached_symbols: if sym != self and sym not in all_symbols
RECURSIVE AppendOthers(_, _, _)
AppendOthers(self, all_symbols, ws) ==
    IF ws = <<>> THEN all_symbols
    ELSE LET Fresh(o) == o # self /\ o \notin Range(all_symbols)
         IN  AppendOthers(self,
                          all_symbols \o SelectSeq(list_connected_symbols(ws[1], TRUE), Fresh),
                          Tail(ws))

\* two placed capacitors and the wires of the document
WireInit ==
    /\ pc = "ready"
    /\ ref = <<"C1", "C2">>
    /\ unit = <<1, 1>>
    /\ lib_id = <<CSmall, CSmall>>
    /\ value = <<BatchValue, BatchValue>>
    /\ \E p \in WirePlacements : at = <<<<0, 0, 0>>, p>>
    /\ mirror = <<"none", "none">>
    /\ pin = <<<<"1", "2">>, <<"1", "2">>>>
    /\ sympins_cont_cache = <<NoCache, NoCache>>
    /\ symbol = [elements |-> <<1, 2>>, named |-> [k \in {"C1", "C2"} |-> IF k = "C1" THEN 1 ELSE 2],
                 multi_unit_elements |-> {}]
    /\ last = NoOp
    /\ locations = EmptyMap
    /\ LocIdle
    /\ \E ws \in WireLists : wire = ws
    /\ attached = <<>>

\* sym.pin[i].attached_symbols
PinAttachedSymbols(e, i) ==
    /\ pc = "ready"
    /\ e \in DOMAIN ref
    /\ LET r == PinProperty(sympins_cont_cache[e], symbol, ref[e], unit[e],
                            lib_symbol(has_lib_symbols, lib_id[e]), pin[e])
       IN  /\ r.err = "none" => i \in DOMAIN r.cache.pins
           /\ sympins_cont_cache' = [sympins_cont_cache EXCEPT ![e] = r.cache]
           /\ last' = [name |-> "pin.attached_symbols", err |-> r.err]
           /\ attached' = IF r.err = "none"
                          THEN ExtendEach(<<>>, PinAttachedWires(at[e], mirror[e],
                                                                r.cache.pins[i]))
                          ELSE attached
    /\ UNCHANGED <<pc, ref, unit, lib_id, value, at, mirror, pin,
                   symbol, locations, locVars, wire>>

\* sym.attached_symbols
SymbolAttachedSymbols(e) ==
    /\ pc = "ready"
    /\ e \in DOMAIN ref
    /\ LET r == PinProperty(sympins_cont_cache[e], symbol, ref[e], unit[e],
                            lib_symbol(has_lib_symbols, lib_id[e]), pin[e])
       IN  /\ sympins_cont_cache' = [sympins_cont_cache EXCEPT ![e] = r.cache]
           /\ last' = [name |-> "attached_symbols", err |-> r.err]
           /\ attached' = IF r.err = "none"
                          THEN AppendOthers(e, <<>>,
                                            SymbolAttachedWires(at[e], mirror[e], r.cache.pins))
                          ELSE attached
    /\ UNCHANGED <<pc, ref, unit, lib_id, value, at, mirror, pin,
                   symbol, locations, locVars, wire>>

WireNext ==
    \/ \E e \in 1..MaxSymbols, i \in 1..MaxPins : PinAttachedSymbols(e, i)
    \/ \E e \in 1..MaxSymbols : SymbolAttachedSymbols(e)

SpecWire == WireInit /\ [][WireNext]_vars

(***************************************************************************)
(* Properties of the placement transform.                                  *)
(***************************************************************************)
\* C6: for every symbol rotation, mirror and library pin rotation that are right
\* angles the loop of SymbolPin.location is left after at most 3 quarter turns:
\* a turn is never due once three are taken.
C6_AtMostThreeTurns ==
    /\ steps <= 3
    /\ (l_pc = "loop" /\ steps = 3 => ~LoopCond(manip_at, AtValue(at[1])))

C6_Witness == l_pc = "done" /\ steps = 3 /\ mirror[1] = "x" /\ lib_pin_at[3] = 90

\* the library pin's rotation once mirrored, as the design document gives it
MirroredRotation(mval, r) ==
    IF (mval = "y" /\ r % 180 = 0) \/ (mval = "x" /\ r % 90 = 0)
    THEN (r + 180) % 360
    ELSE r

\* C7 as stated: the rotation of the location returned equals the symbol's
\* rotation r.
C7_ReturnsSymbolRotation == l_pc = "done" => loc[3] = at[1][3]

\* C7, amended: the loop stops with the accumulated rotation equal to r, and the
\* rotation of the location returned is the mirrored library pin rotation turned
\* by r, (mirrored pin rotation + r) mod 360; it equals r exactly when the
\* mirrored pin rotation is 0.
C7_ReturnsPinRotationTurned ==
    l_pc = "done" =>
        /\ manip_at[3] = at[1][3]
        /\ loc[3] = (MirroredRotation(mirror[1], lib_pin_at[3]) + at[1][3]) % 360
        /\ (loc[3] = at[1][3] <=> MirroredRotation(mirror[1], lib_pin_at[3]) = 0)

C7_Witness ==
    /\ l_pc = "done" /\ mirror[1] = "y" /\ lib_pin_at[3] = 90 /\ at[1][3] = 180
    /\ loc[3] = 270

\* the reference result of C8: mirror, then the step n times, then the offset
RefMirror(mval, p) ==
    <<IF mval = "y" THEN -p[1] ELSE p[1],
      IF mval = "x" THEN -p[2] ELSE p[2],
      MirroredRotation(mval, p[3])>>

RECURSIVE RefTurn(_, _)
RefTurn(p, n) ==
    IF n = 0 THEN p ELSE RefTurn(<<-p[2], p[1], (p[3] + 90) % 360>>, n - 1)

RefLocation(par, mval, p) ==
    LET t == RefTurn(RefMirror(mval, p), par[3] \div 90)
    IN  <<par[1] + t[1], par[2] - t[2], t[3]>>

\* C8: for integer symbol positions, right-angle symbol rotations, every mirror
\* and every library pin placement with a right-angle rotation, the location
\* returned is the reference result: the pin mirrored, then turned by the step
\* (x, y, rot) -> (-y, x, (rot + 90) mod 360) exactly rotation/90 times, then
\* (symbol.x + x, symbol.y - y, rot).
C8_MatchesReference ==
    l_pc = "done" =>
        /\ loc = RefLocation(at[1], mirror[1], lib_pin_at)
        /\ steps = at[1][3] \div 90

C8_Witness ==
    /\ l_pc = "done" /\ mirror[1] = "x" /\ at[1] = <<1, -1, 270>>
    /\ lib_pin_at = <<2, 1, 0>>
    /\ loc = <<0, 1, 90>>

(***************************************************************************)
(* Properties of the pin collection.                                       *)
(***************************************************************************)
\* the library definitions the design document names for symbol e: its unit's
\* when the part is multi-unit, else every unit's
DefsFor(e) ==
    LET lib == LibSymbolTable[lib_id[e]]
    IN  IF ref[e] \in symbol.multi_unit_elements
        THEN Range(lib.symbol[unit[e]])
        ELSE UNION {Range(lib.symbol[u]) : u \in DOMAIN lib.symbol}

\* C9: the pin collection Symbol.pin builds holds exactly one SymbolPin for each
\* instance pin whose number a library definition carries (the owning unit's
\* definitions for a multi-unit part, else the full set), in instance-pin order,
\* and none for the others; an unmatched pin never makes the build fail (it fails
\* only for a missing library entry or unit), so with an unmatched instance pin
\* the collection is smaller than the instance pin list.
C9_PinCollection ==
    [][\A e \in DOMAIN ref :
        /\ (~sympins_cont_cache[e].built /\ sympins_cont_cache'[e].built)
           => LET built == sympins_cont_cache'[e].pins
                  Matched(n) == \E d \in DefsFor(e) : d.number = n
              IN  /\ [i \in DOMAIN built |-> built[i].number] = SelectSeq(pin[e], Matched)
                  /\ \A i \in DOMAIN built :
                        /\ built[i].pin \in DOMAIN pin[e]
                        /\ pin[e][built[i].pin] = built[i].number
                        /\ PinDef(built[i].number, built[i].name, built[i].at) \in DefsFor(e)
                  /\ \A i, j \in DOMAIN built : i < j => built[i].pin < built[j].pin
                  /\ ((\E i \in DOMAIN pin[e] : ~Matched(pin[e][i]))
                      => Len(built) < Len(pin[e]))
        /\ ((AccessPin(e) \/ GetPinLocations(e)) /\ last'.err # "none")
           => \/ lib_id[e] \notin lib_symbols
              \/ /\ ref[e] \in symbol.multi_unit_elements
                 /\ unit[e] \notin DOMAIN LibSymbolTable[lib_id[e]].symbol]_vars

C9_Witness ==
    /\ last.name = "pin" /\ last.err = "none"
    /\ sympins_cont_cache[1].built
    /\ lib_id[1] = OpAmp /\ unit[1] = 2 /\ "U1" \in symbol.multi_unit_elements
    /\ pin[1] = <<"3", "1", "2", "9">>
    /\ Len(sympins_cont_cache[1].pins) = 2

\* what get_pin_locations returns for symbol e, the names in generic being no keys
PinLocationsFor(e, generic) ==
    LET sp == sympins_cont_cache'[e].pins
        Named == {i \in DOMAIN sp : sp[i].name \notin generic}
        numbers == {sp[i].number : i \in DOMAIN sp}
        names == {sp[i].name : i \in Named}
        Carriers(k) == {i \in DOMAIN sp : sp[i].number = k \/ (i \in Named /\ sp[i].name = k)}
        LastOf(k) == CHOOSE i \in Carriers(k) : \A j \in Carriers(k) : j <= i
        Coord(i) == LET l == RefLocation(at[e], mirror[e], sp[i].at) IN <<l[1], l[2]>>
    IN  /\ DOMAIN locations' = numbers \cup names
        /\ \A k \in DOMAIN locations' : locations'[k] = Coord(LastOf(k))
        /\ ( /\ \A i, j \in DOMAIN sp : i # j => sp[i].number # sp[j].number
             /\ \A i, j \in Named : i # j => sp[i].name # sp[j].name
             /\ names \cap numbers = {} )
           => Cardinality(DOMAIN locations') = Len(sp) + Cardinality(Named)

\* C10 as stated: the keys of the mapping returned are the numbers of the pins of
\* the collection and the names of those whose name is not "~", each mapped to
\* its pin's absolute (x, y); n distinct numbers and k distinct such names apart
\* from the numbers give n + k entries.
C10_KeysNotTilde ==
    [][\A e \in DOMAIN ref :
        (GetPinLocations(e) /\ last'.err = "none") => PinLocationsFor(e, {"~"})]_vars

\* C10, amended: the keys are the numbers of the pins and the names of those
\* whose name is neither "~" nor empty, each mapped to the absolute (x, y) of the
\* pin that carries it (the last such pin in collection order); n distinct
\* numbers and k distinct such names apart from the numbers give n + k entries.
C10_KeysNamed ==
    [][\A e \in DOMAIN ref :
        (GetPinLocations(e) /\ last'.err = "none") => PinLocationsFor(e, {"~", ""})]_vars

C10_Witness ==
    /\ last.name = "get_pin_locations" /\ last.err = "none"
    /\ lib_id[1] = Regulator
    /\ pin[1] = <<"1", "2", "3", "4">>
    /\ Len(sympins_cont_cache[1].pins) = 4
    /\ DOMAIN locations = {"1", "2", "3", "4", "VIN", "GND"}
    /\ at[1] = <<1, -1, 90>> /\ mirror[1] = "x"
    /\ locations["VIN"] = <<4, 7>>

(***************************************************************************)
(* Properties of the symbol collection.                                    *)
(***************************************************************************)
Resolves(c, k, e) == k \in DOMAIN c.named /\ c.named[k] = e
\* the step wrote the Reference of e
WroteReference(e) == last'.name = "SetReference" /\ ref'[e] # ref[e]
\* e is the only unit of its part: unit 1, and no other symbol shares its Reference
UnitOneOnly(e) ==
    /\ unit[e] = 1
    /\ \A o \in Range(symbol.elements) : o # e => ref[o] # ref[e]

\* C1: when a unit-1-only symbol is held by the collection under its Reference R
\* and no element is keyed N, setting its Reference from R to N succeeds, makes N
\* resolve to that same symbol, makes R resolve no more, and leaves the sequence
\* (length and iteration order) as it was.
C1_RenameRekeys ==
    [][\A e \in DOMAIN ref :
        ( /\ WroteReference(e)
          /\ UnitOneOnly(e)
          /\ Resolves(symbol, ref[e], e)
          /\ ref'[e] \notin DOMAIN symbol.named )
        => /\ last'.err = "none"
           /\ Resolves(symbol', ref'[e], e)
           /\ ref[e] \notin DOMAIN symbol'.named
           /\ symbol'.elements = symbol.elements]_vars

C1_Witness ==
    /\ last.name = "SetReference" /\ last.err = "none"
    /\ \E e \in Range(symbol.elements) :
        /\ UnitOneOnly(e)
        /\ Resolves(symbol, ref[e], e)
        /\ Len(symbol.elements) > 1

\* C2: setting a symbol's Reference to a value that is already the key of another
\* element raises an error to the caller and leaves the sequence and the name
\* index exactly as they were; the error is KeyCollision when the symbol's old
\* Reference is a key of the index.
C2_CollisionLeavesCollection ==
    [][\A e \in DOMAIN ref :
        ( /\ WroteReference(e)
          /\ ref'[e] \in DOMAIN symbol.named
          /\ symbol.named[ref'[e]] # e )
        => /\ last'.err # "none"
           /\ symbol' = symbol
           /\ (ref[e] \in DOMAIN symbol.named => last'.err = "KeyCollision")]_vars

C2_Witness ==
    /\ last.name = "SetReference" /\ last.err = "KeyCollision"
    /\ \E e \in Range(symbol.elements) :
        /\ ref[e] \in DOMAIN symbol.named
        /\ symbol.named[ref[e]] # e

\* C3: for every batch handed to the constructor and every Reference R of which
\* the batch holds an element with unit > 1, construction completes, every element
\* of R with unit u is keyed R_<UnitLetter(u)>, the plain key R is absent and
\* multiple_units_for_reference(R) is true.
C3_MultiUnitConstruction ==
    last.name = "Construct" =>
        \A R \in References :
            (\E e \in DOMAIN ref : ref[e] = R /\ unit[e] > 1)
            => /\ pc = "ready"
               /\ \A e \in DOMAIN ref :
                    ref[e] = R
                    => Resolves(symbol, R \o "_" \o UnitToName[unit[e] + 1], e)
               /\ R \notin DOMAIN symbol.named
               /\ multiple_units_for_reference(symbol, R)

\* the step is a from_lib call that created a symbol
Created == last'.name = "from_lib" /\ Len(ref') = Len(ref) + 1
New == Len(ref) + 1

\* C4 as stated: from_lib with a library id of the table and a reference that is
\* no key of the collection adds one element, the returned symbol, at the end,
\* and the given reference resolves to it.
C4_LookupByReference ==
    [][( /\ Created
         /\ lib_id'[New] \in lib_symbols
         /\ ref'[New] \notin DOMAIN symbol.named )
        => /\ Len(symbol'.elements) = Len(symbol.elements) + 1
           /\ Last(symbol'.elements) = New
           /\ Resolves(symbol', ref'[New], New)]_vars

\* C4, amended: from_lib with a library id of the table, a reference and a unit
\* whose key (the reference for unit 1, reference_<UnitLetter(unit)> for a unit
\* above 1) is no key of the collection adds one element, the returned symbol,
\* at the end, and that key resolves to it.
C4_LookupByKey ==
    [][( /\ Created
         /\ lib_id'[New] \in lib_symbols
         /\ SymbolKey(ref'[New], unit'[New]) \notin DOMAIN symbol.named )
        => /\ last'.err = "none"
           /\ Len(symbol'.elements) = Len(symbol.elements) + 1
           /\ Last(symbol'.elements) = New
           /\ Resolves(symbol', SymbolKey(ref'[New], unit'[New]), New)
           /\ (unit'[New] = 1 => Resolves(symbol', ref'[New], New))]_vars

C4_Witness ==
    /\ last.name = "from_lib" /\ last.err = "none"
    /\ Len(symbol.elements) > 1
    /\ LET e == Last(symbol.elements)
       IN  /\ e = Len(ref)
           /\ unit[e] > 1
           /\ lib_id[e] \in lib_symbols
           /\ Resolves(symbol, SymbolKey(ref[e], unit[e]), e)

\* C5: from_lib with a library id that is not in the document's library table
\* raises at once an error that lists the known ids, creates no symbol and leaves
\* the collection (sequence and name index) unchanged.
C5_UnknownLibId ==
    [][(last'.name = "from_lib" /\ last'.lib_id \notin lib_symbols)
        => /\ last'.err = "ValueError"
           /\ last'.known = lib_symbols
           /\ UNCHANGED <<symVars, symbol>>]_vars

C5_Witness ==
    /\ last.name = "from_lib" /\ last.err = "ValueError"
    /\ last.lib_id \notin lib_symbols
    /\ last.known = lib_symbols
    /\ Len(symbol.elements) > 0

(***************************************************************************)
(* Claims about keys under edits and late appends                          *)
(***************************************************************************)
\* the keys under which e resolves
KeysOf(c, e) == {k \in DOMAIN c.named : c.named[k] = e}
\* the unit keys of reference r: r_A, r_B, ...
UnitKeys(r) == {r \o "_" \o UnitToName[i + 1] : i \in 1..(Len(UnitToName) - 1)}

\* the collection that construction from the first n elements held, followed by
\* the append of each later one, leaves behind
RECURSIVE AppendEach(_, _)
AppendEach(c, els) ==
    IF els = <<>> \/ c.err # "none" THEN c
    ELSE LET a == NamedAppend(c, els[1], SymbolKey(ref[els[1]], unit[els[1]]))
         IN  AppendEach([err |-> a.err, elements |-> a.elements, named |-> a.named,
                         multi_unit_elements |-> c.multi_unit_elements], Tail(els))
ConstructedAndAppended(n) ==
    AppendEach(SymbolCollectionInit(SubSeq(symbol.elements, 1, n), ref, unit),
               SubSeq(symbol.elements, n + 1, Len(symbol.elements)))
\* the collection is in a state that construction and appends alone reach
ByConstructionAndAppends ==
    /\ pc = "ready"
    /\ \E n \in 0..Len(symbol.elements) :
        ConstructedAndAppended(n) =
            [err |-> "none", elements |-> symbol.elements, named |-> symbol.named,
             multi_unit_elements |-> symbol.multi_unit_elements]

\* C13: in every collection state that construction and appends reach, a change
\* of one symbol's Reference, whether it succeeds or raises, leaves every other
\* element under exactly the keys it had.
C13_OtherKeysKept ==
    [][\A e \in DOMAIN ref :
        (ByConstructionAndAppends /\ WroteReference(e))
        => \A o \in Range(symbol.elements) \ {e} :
                KeysOf(symbol', o) = KeysOf(symbol, o)]_vars

\* C14: when the collection holds reference R as unit 1 only, under the plain
\* key R, an append of a symbol with reference R and unit u >= 2 registers it
\* under R_<UnitLetter(u)>, leaves unit 1 under plain R, creates no key R_A and
\* leaves multiple_units_for_reference(R) as it was.
HeldAsUnitOneOnly(R, o) ==
    /\ o \in Range(symbol.elements)
    /\ ref[o] = R /\ unit[o] = 1
    /\ Resolves(symbol, R, o)
    /\ UnitKeys(R) \cap DOMAIN symbol.named = {}
    /\ ~multiple_units_for_reference(symbol, R)

C14_LateUnitNoResuffix ==
    [][\A o \in DOMAIN ref :
        ( /\ last'.name = "from_lib" /\ Len(ref') = Len(ref) + 1
          /\ unit'[New] >= 2
          /\ HeldAsUnitOneOnly(ref'[New], o) )
        => /\ last'.err = "none"
           /\ KeysOf(symbol', New) = {ref'[New] \o "_" \o UnitToName[unit'[New] + 1]}
           /\ KeysOf(symbol', o) = {ref[o]}
           /\ (ref[o] \o "_" \o UnitToName[2]) \notin DOMAIN symbol'.named
           /\ multiple_units_for_reference(symbol', ref[o])
                = multiple_units_for_reference(symbol, ref[o])
           /\ symbol'.multi_unit_elements = symbol.multi_unit_elements]_vars

C14_Witness ==
    /\ last.name = "from_lib" /\ last.err = "none"
    /\ Len(symbol.elements) > 1
    /\ LET e == Last(symbol.elements)
       IN  /\ e = Len(ref)
           /\ unit[e] >= 2
           /\ KeysOf(symbol, e) = {ref[e] \o "_" \o UnitToName[unit[e] + 1]}
           /\ \E o \in Range(symbol.elements) \ {e} :
                /\ ref[o] = ref[e] /\ unit[o] = 1
                /\ KeysOf(symbol, o) = {ref[o]}
           /\ ~multiple_units_for_reference(symbol, ref[e])

\* C15: in every state that construction, successful appends and successful
\* Reference edits reach, the name index is a bijection onto the elements of the
\* sequence, and every key is the current Reference of its element, plain or
\* followed by _<UnitLetter(unit)>.
C15_IndexKeyedByReference ==
    pc = "ready" =>
        /\ \A i, j \in DOMAIN symbol.elements :
                symbol.elements[i] = symbol.elements[j] => i = j
        /\ \A e \in Range(symbol.elements) : Cardinality(KeysOf(symbol, e)) = 1
        /\ \A k \in DOMAIN symbol.named :
                /\ symbol.named[k] \in Range(symbol.elements)
                /\ k \in {ref[symbol.named[k]],
                          ref[symbol.named[k]] \o "_"
                              \o UnitToName[unit[symbol.named[k]] + 1]}

(***************************************************************************)
(* Claim about the pin cache                                               *)
(***************************************************************************)
\* what Symbol.pin of e returns in this state
PinOf(e) ==
    PinProperty(sympins_cont_cache[e], symbol, ref[e], unit[e],
                lib_symbol(has_lib_symbols, lib_id[e]), pin[e])
\* what Symbol.pin of e would build in this state had it no cache
BuiltAnew(e) ==
    PinProperty(NoCache, symbol, ref[e], unit[e],
                lib_symbol(has_lib_symbols, lib_id[e]), pin[e])

\* C11: once the pin collection of a symbol is built, every access to Symbol.pin
\* returns that collection with the same members, whatever the unit, library id,
\* instance pin list and Reference have become since; no step clears or rebuilds
\* the cache.
C11_CacheKept ==
    [][\A e \in DOMAIN ref :
        sympins_cont_cache[e].built
        => /\ PinOf(e) = [err |-> "none", cache |-> sympins_cont_cache[e]]
           /\ sympins_cont_cache'[e] = sympins_cont_cache[e]
           /\ (last'.name = "pin" => last'.err = "none")]_vars

\* an access that returned a cached collection which a build from the symbol's
\* present unit, library id, pin list and Reference would not give
C11_Witness ==
    /\ last.name = "pin" /\ last.err = "none"
    /\ sympins_cont_cache[1].built
    /\ BuiltAnew(1).err = "none"
    /\ BuiltAnew(1).cache.pins # sympins_cont_cache[1].pins
    /\ PinOf(1).cache = sympins_cont_cache[1]

(***************************************************************************)
(* Claim about the attached symbols of a pin                               *)
(***************************************************************************)
NoDuplicates(q) == \A i, j \in DOMAIN q : q[i] = q[j] => i = j

\* C12: for every pin and every layout of wires and symbols, what the pin's
\* attached_symbols returns never holds the pin's own symbol and holds each
\* connected symbol at most once.
C12_NoSelfNoDuplicates ==
    [][\A e \in DOMAIN ref, i \in 1..MaxPins :
        (PinAttachedSymbols(e, i) /\ last'.err = "none")
        => /\ e \notin Range(attached')
           /\ NoDuplicates(attached')]_vars

====
